---------------------------- MODULE Spec2Model ----------------------------
(***************************************************************************)
(* State-machine model of src/main.cpp (D3D9 multiple point lights demo):  *)
(* the point-light simulation, the camera rig with its mouse-driven mode   *)
(* machine, and the lighting technique selector.                           *)
(*                                                                         *)
(* Floating point quantities are carried as exact fixed-point integers:    *)
(*   angles (pitch, orbit deltas, orientation)  tenths of a degree         *)
(*   dolly offset                               hundredths of a unit       *)
(*   light radius                               whole units                *)
(*   light position                             millionths of a unit       *)
(*   light velocity                             thousandths of a unit / s  *)
(*   elapsed time                               milliseconds               *)
(*   camera target / position                   thousandths of a unit      *)
(*   unit axes, sines and cosines               thousandths                *)
(*   raw timer samples                          milliseconds               *)
(*   smoothed elapsed time kept by the timer    microseconds               *)
(***************************************************************************)
EXTENDS Integers, Sequences, FiniteSets, TLC

(***************************************************************************)
(* Program constants.                                                      *)
(***************************************************************************)
CAMERA_ZNEAR == 1
MOUSE_ORBIT_SPEED == 3
MOUSE_DOLLY_SPEED == 100
MOUSE_TRACK_SPEED == 500
MOUSE_WHEEL_DOLLY_SPEED == 25
ROOM_SIZE_X == 256
ROOM_SIZE_Y == 128
ROOM_SIZE_Z == 256
Max2(a, b) == IF a > b THEN a ELSE b
DOLLY_MAX == Max2(Max2(ROOM_SIZE_X, ROOM_SIZE_Y), ROOM_SIZE_Z) * 2 * 100
DOLLY_MIN == CAMERA_ZNEAR
PITCH_MAX == 900
LIGHT_OBJECT_LAUNCH_ANGLE == 450
LIGHT_OBJECT_RADIUS == 2
LIGHT_OBJECT_SPEED == 80
LIGHT_RADIUS_MAX == (Max2(Max2(ROOM_SIZE_X, ROOM_SIZE_Y), ROOM_SIZE_Z) * 5) \div 4
LIGHT_RADIUS_MIN == 0
LIGHT_RADIUS_INIT == 100
MAX_LIGHTS_SM20 == 2
MAX_LIGHTS_SM30 == 8
NUM_LIGHTS == 8
LightIdx == 0 .. (NUM_LIGHTS - 1)
Micro == 1000 * 1000
RAND_MAX == 32767

(***************************************************************************)
(* Arithmetic helpers.                                                     *)
(***************************************************************************)
Abs(a) == IF a < 0 THEN -a ELSE a
\* C-style division, rounding toward zero.
TruncDiv(a, b) == IF a >= 0 THEN a \div b ELSE -((-a) \div b)
SinTab == <<0, 52, 105, 156, 208, 259, 309, 358, 407, 454, 500, 545, 588, 629,
            669, 707, 743, 777, 809, 839, 866, 891, 914, 934, 951, 966, 978,
            988, 995, 999, 1000>>
\* sine (in thousandths) of an angle in [0, 900] tenths of a degree.
SinQ(a) == LET k == a \div 30
               r == a % 30
           IN  IF r = 0 THEN SinTab[k + 1]
               ELSE SinTab[k + 1] + ((SinTab[k + 2] - SinTab[k + 1]) * r) \div 30
\* sinf / cosf of an angle in tenths of a degree, in thousandths.
Sin1000(a) == LET m == a % 3600
              IN  IF m <= 900 THEN SinQ(m)
                  ELSE IF m <= 1800 THEN SinQ(1800 - m)
                  ELSE IF m <= 2700 THEN -SinQ(m - 1800)
                  ELSE -SinQ(3600 - m)
Cos1000(a) == Sin1000(a + 900)

VARIABLES
    phase,                     \* WinMain: "start", "running", "failed", "exited", "crashed"
    vsVersion, psVersion,      \* g_caps.VertexShaderVersion / PixelShaderVersion (major)
    g_supportsShaderModel30,
    g_pBlinnPhongEffectSM20,   \* "null" or "SM20"
    g_pBlinnPhongEffectSM30,   \* "null" or "SM30"
    g_pBlinnPhongEffect,       \* "null", "SM20" or "SM30"
    g_numLights,
    g_enableMultipassLighting,
    g_animateLights,
    g_hasFocus,
    g_lights,
    g_camera,
    cameraMode, ptMousePrev, mouseButtonsDown,   \* statics of ProcessMouseInput
    captured,                  \* SetCapture / ReleaseCapture
    held,                      \* buttons physically held (the MK_ flags of wParam)
    hTechnique,                \* technique chosen by the last RenderRoomUsingBlinnPhong
    bound,                     \* parameters supplied by the last UpdateEffects
    frames,                    \* number of frames run so far
    msgQueue,                  \* the thread's message queue, oldest message first
    msg,                       \* WinMain: msg.message, the message last retrieved
    timer,                     \* statics of GetElapsedTimeInSeconds
    logged,                    \* text of the message box shown by Log(), or "none"
    initCalls,                 \* per light, the number of calls of init() so far
    resetUsed,                 \* effect pointers ResetDevice() called through in the
                               \* latest frame or full-screen toggle
    g_isFullScreen,
    lastEvent                  \* the handler that produced the current state

selectorVars == <<g_supportsShaderModel30, g_pBlinnPhongEffectSM20, g_pBlinnPhongEffectSM30,
                  g_pBlinnPhongEffect, g_numLights, g_enableMultipassLighting>>
mouseVars == <<cameraMode, ptMousePrev, mouseButtonsDown, captured, held>>
vars == <<phase, vsVersion, psVersion, selectorVars, g_animateLights, g_hasFocus,
          g_lights, g_camera, mouseVars, hTechnique, bound, frames, msgQueue, msg,
          timer, logged, initCalls, resetUsed, g_isFullScreen, lastEvent>>

(***************************************************************************)
(* Small vector helpers (3-tuples).                                        *)
(***************************************************************************)
Vec(x, y, z) == <<x, y, z>>
VAdd(u, v) == <<u[1] + v[1], u[2] + v[2], u[3] + v[3]>>
VSub(u, v) == <<u[1] - v[1], u[2] - v[2], u[3] - v[3]>>
\* u * (num / den), each component rounded toward zero.
VScale(u, num, den) == <<TruncDiv(u[1] * num, den), TruncDiv(u[2] * num, den),
                         TruncDiv(u[3] * num, den)>>

(***************************************************************************)
(* PointLight.                                                             *)
(***************************************************************************)
LightColour == <<"WHITE", "RED", "GREEN", "BLUE", "YELLOW", "CYAN", "MAGENTA", "CORNFLOWER">>

\* g_lights[] as statically initialised.
InitialLights == [i \in LightIdx |->
                    [pos |-> Vec(0, 0, 0),
                     ambient |-> LightColour[i + 1],
                     diffuse |-> LightColour[i + 1],
                     specular |-> LightColour[i + 1],
                     radius |-> LIGHT_RADIUS_INIT,
                     velocity |-> Vec(0, 0, 0)]]

\* Launch speed (thousandths of a unit per second) for a rand() value r.
LaunchRho(r) == LIGHT_OBJECT_SPEED * 1000
                  + TruncDiv(((LIGHT_OBJECT_SPEED * 1000) \div 2) * r, RAND_MAX)
\* Azimuth (tenths of a degree) for a rand() value r.
LaunchTheta(r) == TruncDiv(3600 * r, RAND_MAX)

\* Mutant: the azimuth is used as the elevation.
LightInitAnglesSwapped(l, r1, r2) ==
    LET rho == LaunchRho(r1)
        phi == LIGHT_OBJECT_LAUNCH_ANGLE
        theta == LaunchTheta(r2)
        h == TruncDiv(rho * Cos1000(theta), 1000)
    IN  [l EXCEPT !.velocity = Vec(TruncDiv(h * Cos1000(phi), 1000),
                                   TruncDiv(rho * Sin1000(theta), 1000),
                                   TruncDiv(h * Sin1000(phi), 1000))]

\* PointLight::init() with the two rand() results r1, r2.
LightInit(l, r1, r2) ==
    LET rho == LaunchRho(r1)
        phi == LIGHT_OBJECT_LAUNCH_ANGLE
        theta == LaunchTheta(r2)
        h == TruncDiv(rho * Cos1000(phi), 1000)
    IN  [l EXCEPT !.velocity = Vec(TruncDiv(h * Cos1000(theta), 1000),
                                   TruncDiv(rho * Sin1000(phi), 1000),
                                   TruncDiv(h * Sin1000(theta), 1000))]

\* Reflection threshold per axis (millionths): room half extent - 2 * light radius.
RoomHalf == <<ROOM_SIZE_X \div 2, ROOM_SIZE_Y \div 2, ROOM_SIZE_Z \div 2>>
ReflectAt(axis) == (RoomHalf[axis] - LIGHT_OBJECT_RADIUS * 2) * Micro

\* Mutant: a light beyond a threshold is stopped on that axis.
ReflectAxisStops(p, v, axis) ==
    IF p > ReflectAt(axis) \/ p < -ReflectAt(axis) THEN 0 ELSE v

\* Mutant: only the positive wall reflects.
ReflectAxisUpperOnly(p, v, axis) == IF p > ReflectAt(axis) THEN -v ELSE v

\* The two reflection tests of one axis, applied in sequence to velocity component v
\* for the already integrated position p.
ReflectAxis(p, v, axis) ==
    LET v1 == IF p > ReflectAt(axis) THEN -v ELSE v
    IN  IF p < -ReflectAt(axis) THEN -v1 ELSE v1

\* PointLight::update(elapsedTimeSec), dt in milliseconds.
LightUpdate(l, dt) ==
    LET p == [a \in 1..3 |-> l.pos[a] + l.velocity[a] * dt]
    IN  [l EXCEPT !.pos = Vec(p[1], p[2], p[3]),
                  !.velocity = Vec(ReflectAxis(p[1], l.velocity[1], 1),
                                   ReflectAxis(p[2], l.velocity[2], 2),
                                   ReflectAxis(p[3], l.velocity[3], 3))]

\* Mutant: only the lights in use are advanced.
UpdateLightsActiveOnly(lights, dt) ==
    [i \in LightIdx |-> IF i < g_numLights THEN LightUpdate(lights[i], dt) ELSE lights[i]]

\* UpdateLights(): the loop runs over the whole g_lights array.
UpdateLights(lights, dt) == [i \in LightIdx |-> LightUpdate(lights[i], dt)]

(***************************************************************************)
(* Camera.                                                                 *)
(***************************************************************************)
\* The orientation quaternion is only ever multiplied on the left by rotations
\* about the world Y axis and on the right by rotations about the X axis, so
\* it is exactly  RotY(yaw) * RotX(pitch)  for the two accumulated angles.
InitialCamera == [pitch |-> 0,
                  offset |-> ROOM_SIZE_Z * 100,
                  xAxis |-> Vec(1000, 0, 0),
                  yAxis |-> Vec(0, 1000, 0),
                  zAxis |-> Vec(0, 0, 1000),
                  pos |-> Vec(0, 0, 0),
                  target |-> Vec(0, 0, 0),
                  orientation |-> [yaw |-> 0, pitch |-> 0]]

(***************************************************************************)
(* GetElapsedTimeInSeconds.                                                *)
(***************************************************************************)
MAX_SAMPLE_COUNT == 50
\* One second, in milliseconds.
ONE_SECOND == 1000

\* The statics of GetElapsedTimeInSeconds before its first call.
InitialTimer == [frameTimes |-> [i \in 1 .. MAX_SAMPLE_COUNT |-> 0],
                 sampleCount |-> 0,
                 actualElapsedTimeSec |-> 0]

RECURSIVE SumFirst(_, _)
\* frameTimes[0] + ... + frameTimes[n - 1]
SumFirst(frameTimes, n) == IF n = 0 THEN 0 ELSE SumFirst(frameTimes, n - 1) + frameTimes[n]

\* Mutant: a sample exactly one second away from the average is accepted too.
ElapsedTimeAcceptAtOneSecond(t, raw) ==
    LET accepted == Abs(raw * 1000 - t.actualElapsedTimeSec) <= ONE_SECOND * 1000
        times == IF accepted
                 THEN [i \in 1 .. MAX_SAMPLE_COUNT |->
                         IF i = 1 THEN raw ELSE t.frameTimes[i - 1]]
                 ELSE t.frameTimes
        count == IF accepted /\ t.sampleCount < MAX_SAMPLE_COUNT
                 THEN t.sampleCount + 1
                 ELSE t.sampleCount
    IN  [frameTimes |-> times,
         sampleCount |-> count,
         actualElapsedTimeSec |-> IF count > 0
                                  THEN (SumFirst(times, count) * 1000) \div count
                                  ELSE 0]

\* The statics after one call whose raw elapsed time is raw milliseconds; the
\* value returned is the new actualElapsedTimeSec.
ElapsedTime(t, raw) ==
    LET accepted == Abs(raw * 1000 - t.actualElapsedTimeSec) < ONE_SECOND * 1000
        times == IF accepted
                 THEN [i \in 1 .. MAX_SAMPLE_COUNT |->
                         IF i = 1 THEN raw ELSE t.frameTimes[i - 1]]
                 ELSE t.frameTimes
        count == IF accepted /\ t.sampleCount < MAX_SAMPLE_COUNT
                 THEN t.sampleCount + 1
                 ELSE t.sampleCount
    IN  [frameTimes |-> times,
         sampleCount |-> count,
         actualElapsedTimeSec |-> IF count > 0
                                  THEN (SumFirst(times, count) * 1000) \div count
                                  ELSE 0]

(***************************************************************************)
(* Initial state: the globals as statically initialised, before Init().    *)
(***************************************************************************)
ShaderVersions == {1, 2, 3}
NoBinding == [effect |-> "null", numLights |-> -1, lights |-> <<>>]

Init ==
    /\ phase = "start"
    /\ vsVersion \in ShaderVersions
    /\ psVersion \in ShaderVersions
    /\ g_supportsShaderModel30 = FALSE
    /\ g_pBlinnPhongEffectSM20 = "null"
    /\ g_pBlinnPhongEffectSM30 = "null"
    /\ g_pBlinnPhongEffect = "null"
    /\ g_numLights = 0
    /\ g_enableMultipassLighting = FALSE
    /\ g_animateLights = TRUE
    /\ g_hasFocus = FALSE
    /\ g_lights = InitialLights
    /\ g_camera = InitialCamera
    /\ cameraMode = "CAMERA_NONE"
    /\ ptMousePrev = <<0, 0>>
    /\ mouseButtonsDown = 0
    /\ captured = FALSE
    /\ held = {}
    /\ hTechnique = "null"
    /\ bound = NoBinding
    /\ frames = 0
    /\ msgQueue = <<>>
    /\ msg = "WM_NULL"
    /\ timer = InitialTimer
    /\ logged = "none"
    /\ initCalls = [i \in LightIdx |-> 0]
    /\ resetUsed = {}
    /\ g_isFullScreen = FALSE
    /\ lastEvent = "none"

(***************************************************************************)
(* Init() / InitApp().                                                     *)
(***************************************************************************)
FailPoints == {"none", "d3d", "font", "sm30", "textures"}

\* Mutant: only the vertex shader version is tested.
DetectShaderModelVsOnly(vs, ps) ==
    IF vs >= 3 THEN "SM30" ELSE IF vs >= 2 THEN "SM20" ELSE "unsupported"

\* Mutant: hardware below shader model 2.0 is taken for the lower tier.
DetectShaderModelNoFloor(vs, ps) ==
    IF vs >= 3 /\ ps >= 3 THEN "SM30" ELSE "SM20"

\* The shader model test of InitApp: "SM30", "SM20" or "unsupported".
DetectShaderModel(vs, ps) ==
    IF vs >= 3 /\ ps >= 3 THEN "SM30"
    ELSE IF vs >= 2 /\ ps >= 2 THEN "SM20"
    ELSE "unsupported"

\* The tier InitApp activates for a hardware tier: <<effect, light count>>.
StartupTier(model) ==
    IF model = "SM30" THEN <<"SM30", MAX_LIGHTS_SM30>> ELSE <<"SM20", MAX_LIGHTS_SM20>>

\* The text Log() shows when start-up stops at the given stage.
InitLog(stage) ==
    IF stage = 0 THEN "Direct3D initialization failed!"
    ELSE IF stage = 1 THEN "Shader model 2.0 or higher is required."
    ELSE IF stage = 2 THEN "Failed to create font."
    ELSE IF stage = 3 THEN "Failed to load shader: blinn_phong_sm30.fx."
    ELSE IF stage = 4 THEN "Failed to create null texture."
    ELSE logged

\* Mutant: the launch loop stops after the lights of the lower tier.
InitLoopBoundLowerTier(numLights) == MAX_LIGHTS_SM20

\* Mutant: the launch loop runs over the whole array.
InitLoopBoundWholeArray(numLights) == NUM_LIGHTS

\* The bound of the loop that calls g_lights[i].init(): g_numLights.
InitLoopBound(numLights) == numLights

\* Init(): InitD3D() then InitApp(). failAt names the resource whose creation
\* fails (an exception leaves the globals written so far as they are);
\* draws[i] are the two rand() results used by g_lights[i].init().
InitApp(failAt, draws) ==
    LET model == DetectShaderModel(vsVersion, psVersion)
        tier == StartupTier(model)
        stage == IF failAt = "d3d" THEN 0
                 ELSE IF model = "unsupported" THEN 1
                 ELSE IF failAt = "font" THEN 2
                 ELSE IF failAt = "sm30" /\ model = "SM30" THEN 3
                 ELSE IF failAt = "textures" THEN 4
                 ELSE 5
    IN  /\ phase = "start"
        /\ phase' = IF stage = 5 THEN "running" ELSE "failed"
        /\ g_supportsShaderModel30' = IF stage >= 2 THEN model = "SM30" ELSE g_supportsShaderModel30
        /\ g_pBlinnPhongEffectSM20' = IF stage >= 3 THEN "SM20" ELSE g_pBlinnPhongEffectSM20
        /\ g_pBlinnPhongEffectSM30' = IF stage >= 4 /\ model = "SM30" THEN "SM30"
                                      ELSE g_pBlinnPhongEffectSM30
        /\ g_pBlinnPhongEffect' = IF stage >= 4 THEN tier[1] ELSE g_pBlinnPhongEffect
        /\ g_numLights' = IF stage >= 4 THEN tier[2] ELSE g_numLights
        /\ g_lights' = IF stage = 5
                       THEN [i \in LightIdx |->
                               IF i < InitLoopBound(tier[2])
                               THEN LightInit(g_lights[i], draws[i][1], draws[i][2])
                               ELSE g_lights[i]]
                       ELSE g_lights
        /\ initCalls' = IF stage = 5
                        THEN [i \in LightIdx |->
                                IF i < InitLoopBound(tier[2])
                                THEN initCalls[i] + 1
                                ELSE initCalls[i]]
                        ELSE initCalls
        /\ logged' = InitLog(stage)
        /\ lastEvent' = "InitApp"
        /\ UNCHANGED <<vsVersion, psVersion, g_enableMultipassLighting, g_animateLights,
                       g_hasFocus, g_camera, mouseVars, hTechnique, bound, frames,
                       msgQueue, msg, timer, resetUsed, g_isFullScreen>>

(***************************************************************************)
(* WindowProc: WM_ACTIVATE and WM_CHAR.                                    *)
(***************************************************************************)
OtherVars == <<phase, vsVersion, psVersion, frames, msgQueue, msg, timer, logged,
               initCalls, resetUsed, g_isFullScreen>>

\* WM_ACTIVATE with WA_ACTIVE / WA_CLICKACTIVE (TRUE) or WA_INACTIVE (FALSE).
Activate(active) ==
    /\ phase = "running"
    /\ g_hasFocus' = active
    /\ lastEvent' = "WM_ACTIVATE"
    /\ UNCHANGED <<OtherVars, selectorVars, g_animateLights, g_lights, g_camera,
                   mouseVars, hTechnique, bound>>

\* VK_SPACE
KeySpace ==
    /\ phase = "running"
    /\ g_animateLights' = ~g_animateLights
    /\ lastEvent' = "VK_SPACE"
    /\ UNCHANGED <<OtherVars, selectorVars, g_hasFocus, g_lights, g_camera,
                   mouseVars, hTechnique, bound>>

\* Mutant: the radius grows without the upper clamp.
RadiusUpUnclamped(r) == r + 1
\* (radius += 1.0f) > LIGHT_RADIUS_MAX ? LIGHT_RADIUS_MAX
RadiusUp(r) == IF r + 1 > LIGHT_RADIUS_MAX THEN LIGHT_RADIUS_MAX ELSE r + 1
\* (radius -= 1.0f) < LIGHT_RADIUS_MIN ? LIGHT_RADIUS_MIN
RadiusDown(r) == IF r - 1 < LIGHT_RADIUS_MIN THEN LIGHT_RADIUS_MIN ELSE r - 1

\* Mutant: '+' reaches only the lights in use.
KeyPlusActiveOnly ==
    /\ phase = "running"
    /\ g_lights' = [i \in LightIdx |->
                      IF i < g_numLights
                      THEN [g_lights[i] EXCEPT !.radius = RadiusUp(@)]
                      ELSE g_lights[i]]
    /\ lastEvent' = "KeyPlus"
    /\ UNCHANGED <<OtherVars, selectorVars, g_animateLights, g_hasFocus, g_camera,
                   mouseVars, hTechnique, bound>>

\* '+' or '='
KeyPlus ==
    /\ phase = "running"
    /\ g_lights' = [i \in LightIdx |-> [g_lights[i] EXCEPT !.radius = RadiusUp(@)]]
    /\ lastEvent' = "KeyPlus"
    /\ UNCHANGED <<OtherVars, selectorVars, g_animateLights, g_hasFocus, g_camera,
                   mouseVars, hTechnique, bound>>

\* '-'
KeyMinus ==
    /\ phase = "running"
    /\ g_lights' = [i \in LightIdx |-> [g_lights[i] EXCEPT !.radius = RadiusDown(@)]]
    /\ lastEvent' = "KeyMinus"
    /\ UNCHANGED <<OtherVars, selectorVars, g_animateLights, g_hasFocus, g_camera,
                   mouseVars, hTechnique, bound>>

\* 'm' / 'M': the multi-pass flag after the key press.
MultipassAfterM(effect, multipass) == IF effect = "SM20" THEN ~multipass ELSE multipass

KeyM ==
    /\ phase = "running"
    /\ g_enableMultipassLighting' = MultipassAfterM(g_pBlinnPhongEffect, g_enableMultipassLighting)
    /\ lastEvent' = "KeyM"
    /\ UNCHANGED <<OtherVars, g_supportsShaderModel30, g_pBlinnPhongEffectSM20,
                   g_pBlinnPhongEffectSM30, g_pBlinnPhongEffect, g_numLights,
                   g_animateLights, g_hasFocus, g_lights, g_camera, mouseVars,
                   hTechnique, bound>>

\* Mutant: the tier is switched without looking at g_supportsShaderModel30.
TierAfterSUnguarded(supports30, effect, numLights) ==
    IF effect = "SM20" THEN <<"SM30", MAX_LIGHTS_SM30>> ELSE <<"SM20", MAX_LIGHTS_SM20>>
\* Mutant: the tier is switched but the light count is left as it was.
TierAfterSKeepCount(supports30, effect, numLights) ==
    IF supports30
    THEN IF effect = "SM20" THEN <<"SM30", numLights>> ELSE <<"SM20", numLights>>
    ELSE <<effect, numLights>>

\* 's' / 'S': <<active effect, light count>> after the key press.
TierAfterS(supports30, effect, numLights) ==
    IF supports30
    THEN IF effect = "SM20" THEN <<"SM30", MAX_LIGHTS_SM30>> ELSE <<"SM20", MAX_LIGHTS_SM20>>
    ELSE <<effect, numLights>>

\* Mutant: a tier switch turns multi-pass lighting off.
KeySClearsMultipass ==
    LET t == TierAfterS(g_supportsShaderModel30, g_pBlinnPhongEffect, g_numLights)
    IN  /\ phase = "running"
        /\ g_pBlinnPhongEffect' = t[1]
        /\ g_numLights' = t[2]
        /\ g_enableMultipassLighting' = FALSE
        /\ lastEvent' = "KeyS"
        /\ UNCHANGED <<OtherVars, g_supportsShaderModel30, g_pBlinnPhongEffectSM20,
                       g_pBlinnPhongEffectSM30,
                       g_animateLights, g_hasFocus, g_lights, g_camera, mouseVars,
                       hTechnique, bound>>

KeyS ==
    LET t == TierAfterS(g_supportsShaderModel30, g_pBlinnPhongEffect, g_numLights)
    IN  /\ phase = "running"
        /\ g_pBlinnPhongEffect' = t[1]
        /\ g_numLights' = t[2]
        /\ lastEvent' = "KeyS"
        /\ UNCHANGED <<OtherVars, g_supportsShaderModel30, g_pBlinnPhongEffectSM20,
                       g_pBlinnPhongEffectSM30, g_enableMultipassLighting,
                       g_animateLights, g_hasFocus, g_lights, g_camera, mouseVars,
                       hTechnique, bound>>

(***************************************************************************)
(* ProcessMouseInput.                                                      *)
(***************************************************************************)
Buttons == {"L", "M", "R"}

\* Mutant: the middle and right buttons are swapped.
ModeOfButtonSwapped(b) == IF b = "L" THEN "CAMERA_TRACK"
                          ELSE IF b = "M" THEN "CAMERA_ORBIT"
                          ELSE "CAMERA_DOLLY"

\* Camera mode selected by a button-down message.
ModeOfButton(b) == IF b = "L" THEN "CAMERA_TRACK"
                   ELSE IF b = "M" THEN "CAMERA_DOLLY"
                   ELSE "CAMERA_ORBIT"

\* Mutant: a press made while a mode is active keeps that mode.
ButtonDownFirstWins(b, pt) ==
    /\ phase = "running"
    /\ b \notin held
    /\ held' = held \cup {b}
    /\ cameraMode' = IF cameraMode = "CAMERA_NONE" THEN ModeOfButton(b) ELSE cameraMode
    /\ mouseButtonsDown' = mouseButtonsDown + 1
    /\ captured' = TRUE
    /\ ptMousePrev' = pt
    /\ lastEvent' = "ButtonDown"
    /\ UNCHANGED <<OtherVars, selectorVars, g_animateLights, g_hasFocus, g_lights,
                   g_camera, hTechnique, bound>>

\* WM_LBUTTONDOWN / WM_MBUTTONDOWN / WM_RBUTTONDOWN at screen point pt.
ButtonDown(b, pt) ==
    /\ phase = "running"
    /\ b \notin held
    /\ held' = held \cup {b}
    /\ cameraMode' = ModeOfButton(b)
    /\ mouseButtonsDown' = mouseButtonsDown + 1
    /\ captured' = TRUE
    /\ ptMousePrev' = pt
    /\ lastEvent' = "ButtonDown"
    /\ UNCHANGED <<OtherVars, selectorVars, g_animateLights, g_hasFocus, g_lights,
                   g_camera, hTechnique, bound>>

\* A button pressed or released while the pointer is outside the window and
\* the window holds no capture: no message reaches WindowProc.
UnseenButton(b) ==
    /\ phase = "running"
    /\ ~captured
    /\ held' = IF b \in held THEN held \ {b} ELSE held \cup {b}
    /\ lastEvent' = "UnseenButton"
    /\ UNCHANGED <<OtherVars, selectorVars, g_animateLights, g_hasFocus, g_lights,
                   g_camera, cameraMode, ptMousePrev, mouseButtonsDown, captured,
                   hTechnique, bound>>

\* Mutant: the lower dolly clamp is missing.
ClampOffsetNoMin(o) == IF o > DOLLY_MAX THEN DOLLY_MAX ELSE o

\* The two dolly clamps, in the order of the code.
ClampOffset(o) ==
    LET o1 == IF o > DOLLY_MAX THEN DOLLY_MAX ELSE o
    IN  IF o1 < DOLLY_MIN THEN DOLLY_MIN ELSE o1

\* Mutant: the horizontal drag is added to the target.
TrackCameraAddsX(cam, px, py) ==
    [cam EXCEPT !.target = VAdd(VAdd(@, VScale(cam.xAxis, px * MOUSE_TRACK_SPEED, 1000)),
                                VScale(cam.yAxis, py * MOUSE_TRACK_SPEED, 1000))]

\* CAMERA_TRACK branch of WM_MOUSEMOVE: px, py = current - previous (pixels).
TrackCamera(cam, px, py) ==
    [cam EXCEPT !.target = VAdd(VSub(@, VScale(cam.xAxis, px * MOUSE_TRACK_SPEED, 1000)),
                                VScale(cam.yAxis, py * MOUSE_TRACK_SPEED, 1000))]

\* CAMERA_DOLLY branch: py = previous.y - current.y (pixels).
DollyCamera(cam, py) ==
    [cam EXCEPT !.offset = ClampOffset(@ - py * MOUSE_DOLLY_SPEED)]

\* Mutant: the pitch is accumulated without the two boundary tests.
OrbitPitchUnclamped(pitch, dy) == <<pitch + dy, dy>>

\* Mutant: the pitch is clamped but the raw delta is handed on.
OrbitPitchRawDelta(pitch, dy) ==
    LET p1 == pitch + dy
    IN  <<IF p1 > PITCH_MAX THEN PITCH_MAX
          ELSE IF p1 < -PITCH_MAX THEN -PITCH_MAX
          ELSE p1,
          dy>>

\* The pitch bookkeeping of the CAMERA_ORBIT branch for a pitch delta dy:
\* <<new pitch, the delta handed to the orientation update>>.
OrbitPitch(pitch, dy) ==
    LET p1 == pitch + dy
        hi == p1 > PITCH_MAX
        dy2 == IF hi THEN PITCH_MAX - (p1 - dy) ELSE dy
        p2 == IF hi THEN PITCH_MAX ELSE p1
        lo == p2 < -PITCH_MAX
        dy3 == IF lo THEN (-PITCH_MAX) - (p2 - dy2) ELSE dy2
        p3 == IF lo THEN -PITCH_MAX ELSE p2
    IN  <<p3, dy3>>

\* CAMERA_ORBIT branch: px, py = previous - current (pixels).  A full turn of
\* yaw is the same rotation, so the accumulated yaw is kept modulo 360 degrees.
OrbitCamera(cam, px, py) ==
    LET dx == px * MOUSE_ORBIT_SPEED
        r == OrbitPitch(cam.pitch, py * MOUSE_ORBIT_SPEED)
    IN  [cam EXCEPT !.pitch = r[1],
                    !.orientation = [yaw |-> (@.yaw + dx) % 3600,
                                     pitch |-> @.pitch + r[2]]]

\* Mutant: a move with no mode active dollies the camera.
MoveCameraIdleDollies(cam, mode, prev, pt) ==
    IF mode = "CAMERA_TRACK" THEN TrackCamera(cam, pt[1] - prev[1], pt[2] - prev[2])
    ELSE IF mode = "CAMERA_ORBIT" THEN OrbitCamera(cam, prev[1] - pt[1], prev[2] - pt[2])
    ELSE DollyCamera(cam, prev[2] - pt[2])

\* The camera after WM_MOUSEMOVE to screen point pt in the given mode.
MoveCamera(cam, mode, prev, pt) ==
    IF mode = "CAMERA_TRACK" THEN TrackCamera(cam, pt[1] - prev[1], pt[2] - prev[2])
    ELSE IF mode = "CAMERA_DOLLY" THEN DollyCamera(cam, prev[2] - pt[2])
    ELSE IF mode = "CAMERA_ORBIT" THEN OrbitCamera(cam, prev[1] - pt[1], prev[2] - pt[2])
    ELSE cam

\* Mutant: the reference position is not moved to the current position.
MouseMoveKeepsReference(pt) ==
    /\ phase = "running"
    /\ g_camera' = MoveCamera(g_camera, cameraMode, ptMousePrev, pt)
    /\ lastEvent' = "MouseMove"
    /\ UNCHANGED <<OtherVars, selectorVars, g_animateLights, g_hasFocus, g_lights,
                   cameraMode, ptMousePrev, mouseButtonsDown, captured, held,
                   hTechnique, bound>>

\* WM_MOUSEMOVE to screen point pt.
MouseMove(pt) ==
    /\ phase = "running"
    /\ g_camera' = MoveCamera(g_camera, cameraMode, ptMousePrev, pt)
    /\ ptMousePrev' = pt
    /\ lastEvent' = "MouseMove"
    /\ UNCHANGED <<OtherVars, selectorVars, g_animateLights, g_hasFocus, g_lights,
                   cameraMode, mouseButtonsDown, captured, held, hTechnique, bound>>

\* Mutant: the right button is tested before the left one.
ModeAfterReleaseRightFirst(mode, flags) ==
    IF "R" \in flags THEN "CAMERA_ORBIT"
    ELSE IF "L" \in flags THEN "CAMERA_TRACK"
    ELSE IF "M" \in flags THEN "CAMERA_DOLLY"
    ELSE mode
\* Mutant: the mode is left as it was while buttons remain counted as down.
ModeAfterReleaseKeep(mode, flags) == mode

\* Mode chosen on a button release while other buttons are counted as down;
\* flags are the buttons still held (MK_LBUTTON, MK_RBUTTON, MK_MBUTTON).
ModeAfterRelease(mode, flags) ==
    IF "L" \in flags THEN "CAMERA_TRACK"
    ELSE IF "R" \in flags THEN "CAMERA_ORBIT"
    ELSE IF "M" \in flags THEN "CAMERA_DOLLY"
    ELSE mode

\* Mutant: the count is not brought back to 0 when it falls below it.
ButtonUpNoFloor(b) ==
    /\ phase = "running"
    /\ b \in held
    /\ held' = held \ {b}
    /\ mouseButtonsDown' = mouseButtonsDown - 1
    /\ IF mouseButtonsDown - 1 = 0
       THEN /\ cameraMode' = "CAMERA_NONE"
            /\ captured' = FALSE
       ELSE /\ cameraMode' = ModeAfterRelease(cameraMode, held \ {b})
            /\ UNCHANGED captured
    /\ lastEvent' = "ButtonUp"
    /\ UNCHANGED <<OtherVars, selectorVars, g_animateLights, g_hasFocus, g_lights,
                   g_camera, ptMousePrev, hTechnique, bound>>

\* WM_LBUTTONUP / WM_RBUTTONUP / WM_MBUTTONUP.
ButtonUp(b) ==
    /\ phase = "running"
    /\ b \in held
    /\ held' = held \ {b}
    /\ IF mouseButtonsDown - 1 <= 0
       THEN /\ mouseButtonsDown' = 0
            /\ cameraMode' = "CAMERA_NONE"
            /\ captured' = FALSE
       ELSE /\ mouseButtonsDown' = mouseButtonsDown - 1
            /\ cameraMode' = ModeAfterRelease(cameraMode, held \ {b})
            /\ UNCHANGED captured
    /\ lastEvent' = "ButtonUp"
    /\ UNCHANGED <<OtherVars, selectorVars, g_animateLights, g_hasFocus, g_lights,
                   g_camera, ptMousePrev, hTechnique, bound>>

\* Mutant: the wheel uses the drag sensitivity.
WheelCameraDragSpeed(cam, wheelDelta) ==
    [cam EXCEPT !.offset = ClampOffset(@ - wheelDelta * MOUSE_DOLLY_SPEED)]

\* WM_MOUSEWHEEL branch: wheelDelta is the signed high word of wParam.
WheelCamera(cam, wheelDelta) ==
    [cam EXCEPT !.offset = ClampOffset(@ - wheelDelta * MOUSE_WHEEL_DOLLY_SPEED)]

MouseWheel(wheelDelta) ==
    /\ phase = "running"
    /\ g_camera' = WheelCamera(g_camera, wheelDelta)
    /\ lastEvent' = "MouseWheel"
    /\ UNCHANGED <<OtherVars, selectorVars, g_animateLights, g_hasFocus, g_lights,
                   mouseVars, hTechnique, bound>>

(***************************************************************************)
(* Per-frame work: UpdateFrame, DeviceIsValid, RenderFrame.                *)
(***************************************************************************)
\* Mutant: the camera is placed along +zAxis.
DeriveCameraAlongZ(cam) ==
    LET cy == Cos1000(cam.orientation.yaw)
        sy == Sin1000(cam.orientation.yaw)
        cp == Cos1000(cam.orientation.pitch)
        sp == Sin1000(cam.orientation.pitch)
        z == Vec(TruncDiv(-(sy * cp), 1000), sp, TruncDiv(cy * cp, 1000))
    IN  [cam EXCEPT !.xAxis = Vec(cy, 0, sy),
                    !.yAxis = Vec(TruncDiv(sy * sp, 1000), cp, TruncDiv(-(cy * sp), 1000)),
                    !.zAxis = z,
                    !.pos = VAdd(cam.target, VScale(z, cam.offset, 100))]

\* The view-basis and position part of UpdateEffects.
DeriveCamera(cam) ==
    LET cy == Cos1000(cam.orientation.yaw)
        sy == Sin1000(cam.orientation.yaw)
        cp == Cos1000(cam.orientation.pitch)
        sp == Sin1000(cam.orientation.pitch)
        z == Vec(TruncDiv(-(sy * cp), 1000), sp, TruncDiv(cy * cp, 1000))
    IN  [cam EXCEPT !.xAxis = Vec(cy, 0, sy),
                    !.yAxis = Vec(TruncDiv(sy * sp, 1000), cp, TruncDiv(-(cy * sp), 1000)),
                    !.zAxis = z,
                    !.pos = VAdd(cam.target, VScale(z, -cam.offset, 100))]

\* The attribute block of one light as handed to the effect.
LightBlock(l) == [pos |-> l.pos, ambient |-> l.ambient, diffuse |-> l.diffuse,
                  specular |-> l.specular, radius |-> l.radius]

\* Mutant: every light of the static array is supplied.
BindLightsAll(effect, numLights, lights) ==
    [effect |-> effect,
     numLights |-> IF effect = "SM30" THEN numLights ELSE -1,
     lights |-> [i \in LightIdx |-> LightBlock(lights[i])]]

\* The light parameters UpdateEffects supplies to the active effect.
BindLights(effect, numLights, lights) ==
    [effect |-> effect,
     numLights |-> IF effect = "SM30" THEN numLights ELSE -1,
     lights |-> [i \in 0 .. (numLights - 1) |-> LightBlock(lights[i])]]

\* Mutant: the multi-pass flag is looked at before the tier.
SelectTechniqueFlagFirst(effect, multipass) ==
    IF multipass THEN "PerPixelPointLightingMultiPass"
    ELSE IF effect = "SM30" THEN "PerPixelPointLighting"
    ELSE "PerPixelPointLightingSinglePass"

\* Technique chosen by RenderRoomUsingBlinnPhong.
SelectTechnique(effect, multipass) ==
    IF effect = "SM30" THEN "PerPixelPointLighting"
    ELSE IF multipass THEN "PerPixelPointLightingMultiPass"
    ELSE "PerPixelPointLightingSinglePass"

\* DeviceIsValid() for the result of TestCooperativeLevel: only
\* D3DERR_DEVICENOTRESET leads to ResetDevice(), whose result is returned.
DeviceStates == {"ok", "lost", "notreset_reset_ok", "notreset_reset_failed"}
\* Mutant: any failure of the cooperative-level test skips the render.
DeviceIsValidOnlyOk(dev) == dev = "ok"

DeviceIsValid(dev) == dev # "notreset_reset_failed"

\* Mutant: the lights are advanced whatever the animate toggle says.
UpdateFrameLightsAlways(animate, lights, dt) == UpdateLights(lights, dt)

\* The lights after UpdateFrame: advanced only while g_animateLights is set.
UpdateFrameLights(animate, lights, dt) ==
    IF animate THEN UpdateLights(lights, dt) ELSE lights

\* A call through a null interface pointer is undefined: the process ends
\* with an access violation, or the call comes back and execution goes on.
NullCallOutcomes == {"crash", "returns"}

\* ResetDevice(): the effect pointers OnLostDevice() is called through, up to
\* g_pDevice->Reset(); neither pointer is tested.
EffectsOfReset(sm20, sm30) == {sm20, sm30}

\* ResetDevice() where g_pDevice->Reset() succeeds (resetOk) or fails:
\* "crashed", "ok" (returns true) or "failed" (returns false).
ResetDevice(sm20, sm30, resetOk, out) ==
    IF "null" \in EffectsOfReset(sm20, sm30) /\ out = "crash" THEN "crashed"
    ELSE IF resetOk THEN "ok"
    ELSE "failed"

\* One pass through the focused branch of the main loop, with the smoothed
\* elapsed time dt (ms) and the device state found by TestCooperativeLevel.
Frame(dt, dev) ==
    LET lights == UpdateFrameLights(g_animateLights, g_lights, dt)
        notReset == dev \in {"notreset_reset_ok", "notreset_reset_failed"}
    IN  /\ phase = "running"
        /\ g_hasFocus
        /\ frames' = frames + 1
        /\ g_lights' = lights
        /\ g_camera' = DeriveCamera(g_camera)
        /\ bound' = BindLights(g_pBlinnPhongEffect, g_numLights, lights)
        /\ resetUsed' = IF notReset
                        THEN EffectsOfReset(g_pBlinnPhongEffectSM20, g_pBlinnPhongEffectSM30)
                        ELSE {}
        /\ \E out \in NullCallOutcomes :
              LET crashed == /\ notReset
                             /\ ResetDevice(g_pBlinnPhongEffectSM20, g_pBlinnPhongEffectSM30,
                                            dev = "notreset_reset_ok", out) = "crashed"
              IN  IF crashed
                  THEN /\ phase' = "crashed"
                       /\ UNCHANGED hTechnique
                       /\ lastEvent' = "FrameCrashed"
                  ELSE /\ phase' = phase
                       /\ IF DeviceIsValid(dev)
                          THEN /\ hTechnique' = SelectTechnique(g_pBlinnPhongEffect,
                                                                g_enableMultipassLighting)
                               /\ lastEvent' = "FrameRendered"
                          ELSE /\ UNCHANGED hTechnique
                               /\ lastEvent' = "FrameSkipped"
        /\ UNCHANGED <<vsVersion, psVersion, selectorVars, g_animateLights,
                       g_hasFocus, mouseVars, msgQueue, msg, timer, logged,
                       initCalls, g_isFullScreen>>

\* Mutant: the toggle starts the animation again.
ToggleFullScreenAnimates(resetOk, out) ==
    /\ phase = "running"
    /\ g_isFullScreen' = ~g_isFullScreen
    /\ g_animateLights' = TRUE
    /\ resetUsed' = EffectsOfReset(g_pBlinnPhongEffectSM20, g_pBlinnPhongEffectSM30)
    /\ phase' = IF ResetDevice(g_pBlinnPhongEffectSM20, g_pBlinnPhongEffectSM30,
                               resetOk, out) = "crashed"
                THEN "crashed" ELSE phase
    /\ lastEvent' = "ToggleFullScreen"
    /\ UNCHANGED <<vsVersion, psVersion, selectorVars, g_hasFocus,
                   g_lights, g_camera, mouseVars, hTechnique, bound, frames,
                   msgQueue, msg, timer, logged, initCalls>>

\* WM_SYSKEYDOWN with VK_RETURN: ToggleFullScreen(), which ends with a call
\* of ResetDevice() whose result is not looked at.
ToggleFullScreen(resetOk, out) ==
    /\ phase = "running"
    /\ g_isFullScreen' = ~g_isFullScreen
    /\ resetUsed' = EffectsOfReset(g_pBlinnPhongEffectSM20, g_pBlinnPhongEffectSM30)
    /\ phase' = IF ResetDevice(g_pBlinnPhongEffectSM20, g_pBlinnPhongEffectSM30,
                               resetOk, out) = "crashed"
                THEN "crashed" ELSE phase
    /\ lastEvent' = "ToggleFullScreen"
    /\ UNCHANGED <<vsVersion, psVersion, selectorVars, g_animateLights, g_hasFocus,
                   g_lights, g_camera, mouseVars, hTechnique, bound, frames,
                   msgQueue, msg, timer, logged, initCalls>>

\* The call GetElapsedTimeInSeconds() of the focused branch, for a raw
\* elapsed time of raw milliseconds; Frame takes the value it returns as dt.
GetElapsedTimeInSeconds(raw) ==
    /\ phase = "running"
    /\ g_hasFocus
    /\ timer' = ElapsedTime(timer, raw)
    /\ lastEvent' = "GetElapsedTimeInSeconds"
    /\ UNCHANGED <<phase, vsVersion, psVersion, selectorVars, g_animateLights,
                   g_hasFocus, g_lights, g_camera, mouseVars, hTechnique, bound,
                   frames, msgQueue, msg, logged, initCalls, resetUsed, g_isFullScreen>>

(***************************************************************************)
(* WinMain: the message loop.  Messages reach the thread at any time and   *)
(* wait in msgQueue; WindowProc runs only from inside the PeekMessage /    *)
(* DispatchMessage loop.                                                   *)
(***************************************************************************)
LoopMessages == {"WA_ACTIVE", "WA_INACTIVE", "VK_SPACE", "WM_QUIT"}

\* The environment delivers message m to the thread.
PostMessage(m) ==
    /\ phase = "running"
    /\ msgQueue' = Append(msgQueue, m)
    /\ UNCHANGED <<phase, vsVersion, psVersion, selectorVars, g_animateLights,
                   g_hasFocus, g_lights, g_camera, mouseVars, hTechnique, bound,
                   frames, msg, timer, logged, initCalls, resetUsed, g_isFullScreen,
                   lastEvent>>

\* PeekMessage(&msg, 0, 0, 0, PM_REMOVE) returning TRUE: the oldest message is
\* removed into msg; WM_QUIT leaves both loops.
PeekMessage ==
    /\ phase = "running"
    /\ lastEvent # "PeekMessage"
    /\ msgQueue # <<>>
    /\ msg' = Head(msgQueue)
    /\ msgQueue' = Tail(msgQueue)
    /\ IF Head(msgQueue) = "WM_QUIT"
       THEN phase' = "exited" /\ lastEvent' = "WM_QUIT"
       ELSE phase' = phase /\ lastEvent' = "PeekMessage"
    /\ UNCHANGED <<vsVersion, psVersion, selectorVars, g_animateLights, g_hasFocus,
                   g_lights, g_camera, mouseVars, hTechnique, bound, frames, timer,
                   logged, initCalls, resetUsed, g_isFullScreen>>

\* DispatchMessage(&msg): WindowProc handles the message just retrieved.
DispatchMessage ==
    /\ lastEvent = "PeekMessage"
    /\ CASE msg = "WA_ACTIVE" -> Activate(TRUE)
         [] msg = "WA_INACTIVE" -> Activate(FALSE)
         [] msg = "VK_SPACE" -> KeySpace
         [] OTHER -> FALSE

\* Mutant: an if in place of the inner while, so that the loop goes on after
\* at most one message.
LoopDrainedAfterOne(queue, last) == last # "PeekMessage"

\* The inner while loop has ended: PeekMessage found no message, and none is
\* retrieved and waiting for DispatchMessage.
LoopDrained(queue, last) == queue = <<>> /\ last # "PeekMessage"

\* The focused branch, entered once the messages are drained.
LoopFrame(dt, dev) ==
    /\ LoopDrained(msgQueue, lastEvent)
    /\ Frame(dt, dev)

\* The unfocused branch: WaitMessage() blocks until a message arrives.
WaitMessage ==
    /\ phase = "running"
    /\ LoopDrained(msgQueue, lastEvent)
    /\ ~g_hasFocus
    /\ lastEvent # "WaitMessage"
    /\ lastEvent' = "WaitMessage"
    /\ UNCHANGED <<OtherVars, selectorVars, g_animateLights, g_hasFocus, g_lights,
                   g_camera, mouseVars, hTechnique, bound>>

(***************************************************************************)
(* Input sets and bounds.                                                  *)
(***************************************************************************)
\* Fixed rand() results, for the specifications that do not study the launch.
FixedDraws == [i \in LightIdx |-> <<0, 0>>]

\* Screen points of the pointer messages.
MousePoints == {<<0, 0>>, <<0, 150>>, <<300, 450>>}
\* Wheel deltas: five notches away, twenty notches toward the target.
WheelDeltas == {-600, 2400}
\* Largest distance (units) of the camera target from the origin, per axis.
MaxTarget == 75

TargetInRange(cam) == \A a \in 1..3 : Abs(cam.target[a]) <= MaxTarget * 1000

(***************************************************************************)
(* Pointer events only, on hardware with either shader tier.               *)
(***************************************************************************)
InitMouse == Init /\ vsVersion = psVersion /\ vsVersion >= 2

StartUp == InitApp("none", FixedDraws)

NextMouse ==
    \/ StartUp
    \/ \E b \in Buttons, pt \in MousePoints : ButtonDown(b, pt)
    \/ \E b \in Buttons : ButtonUp(b)
    \/ \E pt \in MousePoints : MouseMove(pt) /\ TargetInRange(g_camera')
    \/ \E d \in WheelDeltas : MouseWheel(d)

SpecMouse == InitMouse /\ [][NextMouse]_vars

(***************************************************************************)
(* Radius keys and tier switches, on any hardware, with any start-up       *)
(* failure.                                                                *)
(***************************************************************************)
NextRadius ==
    \/ \E f \in FailPoints : InitApp(f, FixedDraws)
    \/ KeyPlus
    \/ KeyMinus
    \/ KeyS

SpecRadius == Init /\ [][NextRadius]_vars

(***************************************************************************)
(* Technique selection: start-up on any hardware, the toggles, and frames. *)
(***************************************************************************)
\* Frames run in one behaviour.
MaxFrames == 3
\* Smoothed elapsed times (ms) handed to UpdateFrame.
FrameTimes == {16, 500, 2000}

NextSelector ==
    \/ \E f \in FailPoints : InitApp(f, FixedDraws)
    \/ \E a \in BOOLEAN : Activate(a)
    \/ KeySpace
    \/ KeyM
    \/ KeyS
    \/ \E dt \in FrameTimes, dev \in DeviceStates : frames < MaxFrames /\ Frame(dt, dev)

SpecSelector == Init /\ [][NextSelector]_vars

(***************************************************************************)
(* Light motion: randomised launch, then frames with varying elapsed time. *)
(***************************************************************************)
\* rand() results of one init(): slowest launch at 45 degrees azimuth,
\* fastest launch at 210 degrees.
DrawPairs == {<<0, 4096>>, <<RAND_MAX, 19115>>}

\* Lights 0 and 1 draw independently; the remaining lights share one draw.
LaunchDraws == {d \in [LightIdx -> DrawPairs] : \A i \in LightIdx : i >= 2 => d[i] = d[2]}

NextLights ==
    \/ \E d \in LaunchDraws : InitApp("none", d)
    \/ \E a \in BOOLEAN : Activate(a)
    \/ KeySpace
    \/ \E dt \in FrameTimes : frames < MaxFrames /\ Frame(dt, "ok")

SpecLights == InitMouse /\ [][NextLights]_vars

(***************************************************************************)
(* Camera rig: short horizontal drags with the left and right buttons,     *)
(* with frames between them so that the axes follow the orientation.       *)
(***************************************************************************)
\* Screen points ten pixels apart on one row.
CamPoints == {<<0, 0>>, <<10, 0>>}
\* Largest yaw (degrees, either way) reached by the orbit drags.
MaxYaw == 3
\* Largest distance (units) of the target from the origin, per axis.
MaxTrack == 5

CameraInRange(cam) ==
    /\ cam.orientation.yaw <= MaxYaw * 10 \/ cam.orientation.yaw >= 3600 - MaxYaw * 10
    /\ \A a \in 1..3 : Abs(cam.target[a]) <= MaxTrack * 1000

NextCamera ==
    \/ StartUp
    \/ Activate(TRUE)
    \/ \E b \in {"L", "R"}, pt \in CamPoints : ButtonDown(b, pt)
    \/ \E b \in {"L", "R"} : ButtonUp(b)
    \/ \E pt \in CamPoints : MouseMove(pt) /\ CameraInRange(g_camera')
    \/ frames < MaxFrames /\ Frame(16, "ok")

SpecCamera == InitMouse /\ [][NextCamera]_vars

(***************************************************************************)
(* The launch alone: start-up on any hardware, with rand() results from    *)
(* both ends and the middle of its range.                                  *)
(***************************************************************************)
SpeedDraws == {0, 8192, 16384, RAND_MAX}
AzimuthDraws == {0, 4096, 12000, 19115, 27000, RAND_MAX}

\* Light 0 draws independently; the remaining lights share one pair.
WideDraws == {[i \in LightIdx |-> IF i = 0 THEN a ELSE b] :
                 a \in SpeedDraws \X AzimuthDraws, b \in SpeedDraws \X AzimuthDraws}

NextLaunch == \E f \in FailPoints, d \in WideDraws : InitApp(f, d)

SpecLaunch == Init /\ [][NextLaunch]_vars

(***************************************************************************)
(* The message loop: activation, SPACE and WM_QUIT arriving at any time,   *)
(* with a device that is fine or cannot be reset.                          *)
(***************************************************************************)
\* Messages waiting in the queue at once.
MaxQueue == 2

NextLoop ==
    \/ StartUp
    \/ \E m \in LoopMessages : Len(msgQueue) < MaxQueue /\ PostMessage(m)
    \/ PeekMessage
    \/ DispatchMessage
    \/ \E dev \in {"ok", "notreset_reset_failed"} : frames < MaxFrames /\ LoopFrame(16, dev)
    \/ WaitMessage

SpecLoop == InitMouse /\ [][NextLoop]_vars

(***************************************************************************)
(* The frame timer: raw samples that never decrease (a frame time that     *)
(* steps up), with samples one second long arriving at any time.           *)
(***************************************************************************)
SampleTimes == {16, 32, 1016}

NextTimer ==
    \/ StartUp
    \/ \E a \in BOOLEAN : Activate(a)
    \/ \E raw \in SampleTimes :
          /\ timer.sampleCount = 0 \/ raw >= timer.frameTimes[1]
          /\ GetElapsedTimeInSeconds(raw)

SpecTimer == InitMouse /\ [][NextTimer]_vars

(***************************************************************************)
(* Vertical drags with the middle and right buttons: steps of 50, 300 and  *)
(* 350 pixels (15, 90 and 105 degrees of pitch; 50, 300 and 350 units of   *)
(* dolly).                                                                 *)
(***************************************************************************)
DragPoints == {<<0, 0>>, <<0, 50>>, <<0, 350>>}

NextDrag ==
    \/ StartUp
    \/ \E b \in {"M", "R"}, pt \in DragPoints : ButtonDown(b, pt)
    \/ \E b \in {"M", "R"} : ButtonUp(b)
    \/ \E pt \in DragPoints : MouseMove(pt)

SpecDrag == InitMouse /\ [][NextDrag]_vars

(***************************************************************************)
(* Device loss and full-screen toggles, on both kinds of hardware, between *)
(* the tier keys, the wheel and frames of 16 ms.                           *)
(***************************************************************************)
\* Frames run in the device specification.
MaxDeviceFrames == 2

NextDevice ==
    \/ StartUp
    \/ Activate(TRUE)
    \/ KeySpace
    \/ KeyM
    \/ KeyS
    \/ \E d \in WheelDeltas : d > 0 /\ MouseWheel(d)
    \/ \E resetOk \in BOOLEAN, out \in NullCallOutcomes : ToggleFullScreen(resetOk, out)
    \/ \E dev \in DeviceStates : frames < MaxDeviceFrames /\ Frame(16, dev)

SpecDevice == Init /\ [][NextDevice]_vars

(***************************************************************************)
(* Button presses and releases, some of them made outside the window while *)
(* it holds no capture, so that releases arrive without their press.       *)
(***************************************************************************)
NextButtons ==
    \/ StartUp
    \/ \E b \in Buttons, pt \in DragPoints : ButtonDown(b, pt)
    \/ \E b \in Buttons : ButtonUp(b)
    \/ \E b \in Buttons : UnseenButton(b)

SpecButtons == InitMouse /\ [][NextButtons]_vars

(***************************************************************************)
(* Properties.                                                             *)
(***************************************************************************)
Running == phase = "running"
FrameRan == lastEvent \in {"FrameRendered", "FrameSkipped"}

\* C1: in every state reachable by pointer events the camera pitch lies
\* within [-90, 90] degrees.
C1_PitchInRange == g_camera.pitch >= -PITCH_MAX /\ g_camera.pitch <= PITCH_MAX

\* An orbit drag has driven the pitch onto the upper boundary.
C1_Witness ==
    /\ lastEvent = "MouseMove"
    /\ cameraMode = "CAMERA_ORBIT"
    /\ g_camera.pitch = PITCH_MAX

\* C2: after every dolly adjustment, from a middle-button drag or from the
\* wheel, the offset lies within [DOLLY_MIN, DOLLY_MAX] = [0.01, 512].
C2_OffsetInRange ==
    /\ DOLLY_MIN = CAMERA_ZNEAR
    /\ DOLLY_MAX = 2 * 256 * 100
    /\ g_camera.offset >= DOLLY_MIN
    /\ g_camera.offset <= DOLLY_MAX

\* A middle-button drag has pushed the offset onto the near-plane clamp.
C2_Witness ==
    /\ lastEvent = "MouseMove"
    /\ cameraMode = "CAMERA_DOLLY"
    /\ g_camera.offset = DOLLY_MIN

\* C3: every light's radius stays within [0, RADIUS_MAX]; '+' raises it by
\* exactly 1 and '-' lowers it by exactly 1, saturating at RADIUS_MAX and 0.
C3_RadiusContract ==
    /\ [](\A i \in LightIdx : g_lights[i].radius >= 0 /\ g_lights[i].radius <= LIGHT_RADIUS_MAX)
    /\ [][/\ KeyPlus =>
               \A i \in LightIdx :
                  g_lights'[i].radius = IF g_lights[i].radius + 1 > LIGHT_RADIUS_MAX
                                        THEN LIGHT_RADIUS_MAX
                                        ELSE g_lights[i].radius + 1
          /\ KeyMinus =>
               \A i \in LightIdx :
                  g_lights'[i].radius = IF g_lights[i].radius - 1 < 0
                                        THEN 0
                                        ELSE g_lights[i].radius - 1]_vars

\* '+' presses have saturated every radius at RADIUS_MAX.
C3_Witness ==
    /\ lastEvent = "KeyPlus"
    /\ \A i \in LightIdx : g_lights[i].radius = LIGHT_RADIUS_MAX

\* C4: one update(dt) step integrates pos += velocity * dt on all three axes
\* and then negates exactly the velocity components whose integrated position
\* is beyond +/-(roomHalfExtent - 2 * lightRadius); the others are unchanged
\* and the position is not clamped.
C4_UpdateStep ==
    [][\A dt \in FrameTimes :
          (g_animateLights /\ Frame(dt, "ok")) =>
             \A i \in LightIdx, a \in 1..3 :
                LET p == g_lights[i].pos[a] + g_lights[i].velocity[a] * dt
                    beyond == p > ReflectAt(a) \/ p < -ReflectAt(a)
                IN  /\ g_lights'[i].pos[a] = p
                    /\ g_lights'[i].velocity[a] =
                          IF beyond THEN -g_lights[i].velocity[a] ELSE g_lights[i].velocity[a]]_vars

\* A light is beyond the negative x threshold and the ceiling threshold at
\* once, with both velocity components turned back, and z still inside.
C4_Witness ==
    /\ lastEvent = "FrameRendered"
    /\ \E i \in LightIdx :
          /\ g_lights[i].pos[1] < -ReflectAt(1)
          /\ g_lights[i].velocity[1] > 0
          /\ g_lights[i].pos[2] > ReflectAt(2)
          /\ g_lights[i].velocity[2] < 0
          /\ Abs(g_lights[i].pos[3]) <= ReflectAt(3)
          /\ g_lights[i].velocity[3] < 0

LowerTierOnly == Running /\ (vsVersion < 3 \/ psVersion < 3)
BothTiers == Running /\ vsVersion >= 3 /\ psVersion >= 3

\* C5: when only the lower tier is supported the active light count is
\* always 2, the lower tier stays active, and 'S' changes nothing.
C5_LowerTierOnly ==
    /\ [](LowerTierOnly => g_numLights = 2 /\ g_pBlinnPhongEffect = "SM20")
    /\ [][(LowerTierOnly /\ KeyS) =>
             UNCHANGED <<selectorVars, g_lights, g_camera, g_animateLights, hTechnique, bound>>]_vars

\* 'S' has been pressed on hardware with the lower tier only.
C5_Witness ==
    /\ LowerTierOnly
    /\ lastEvent = "KeyS"
    /\ g_numLights = 2

\* C6: when both tiers are supported each 'S' press switches the tier and
\* sets the light count to the new tier's maximum; the count is 8 exactly
\* when the higher tier is active and 2 exactly when the lower tier is.
C6_TierSwitch ==
    /\ [](BothTiers => \/ g_pBlinnPhongEffect = "SM30" /\ g_numLights = 8
                       \/ g_pBlinnPhongEffect = "SM20" /\ g_numLights = 2)
    /\ [][(BothTiers /\ KeyS) =>
             /\ g_pBlinnPhongEffect' # g_pBlinnPhongEffect
             /\ g_pBlinnPhongEffect' \in {"SM20", "SM30"}
             /\ g_numLights' = IF g_pBlinnPhongEffect' = "SM30" THEN 8 ELSE 2]_vars

\* 'S' has switched capable hardware down to the lower tier.
C6_Witness ==
    /\ BothTiers
    /\ lastEvent = "KeyS"
    /\ g_pBlinnPhongEffect = "SM20"
    /\ g_numLights = 2

\* C7: after start-up, hardware with vertex and pixel shader versions >= 3.0
\* runs the higher tier with 8 lights; otherwise, with both >= 2.0, the lower
\* tier with 2 lights.
C7_StartupTier ==
    (Running /\ lastEvent = "InitApp") =>
        IF vsVersion >= 3 /\ psVersion >= 3
        THEN g_pBlinnPhongEffect = "SM30" /\ g_numLights = 8
        ELSE /\ vsVersion >= 2 /\ psVersion >= 2
             /\ g_pBlinnPhongEffect = "SM20" /\ g_numLights = 2

\* Start-up on hardware whose vertex shaders are 3.0 but pixel shaders 2.0.
C7_Witness ==
    /\ Running /\ lastEvent = "InitApp"
    /\ vsVersion = 3 /\ psVersion = 2
    /\ g_pBlinnPhongEffect = "SM20" /\ g_numLights = 2

Techniques == {"PerPixelPointLighting", "PerPixelPointLightingSinglePass",
               "PerPixelPointLightingMultiPass"}

\* C8: a render with the higher tier active selects the tier-2 single-pass
\* technique whatever the multi-pass flag, and 'M' leaves the flag alone
\* there; with the lower tier active 'M' toggles between tier-1 single-pass
\* and tier-1 multi-pass.  A selected technique is one of these three.
C8_Technique ==
    /\ [](lastEvent = "FrameRendered" =>
            /\ hTechnique \in Techniques
            /\ g_pBlinnPhongEffect = "SM30" => hTechnique = "PerPixelPointLighting"
            /\ g_pBlinnPhongEffect = "SM20" =>
                  hTechnique = IF g_enableMultipassLighting
                               THEN "PerPixelPointLightingMultiPass"
                               ELSE "PerPixelPointLightingSinglePass")
    /\ [](hTechnique \in Techniques \cup {"null"})
    /\ [][KeyM => g_enableMultipassLighting' =
                     IF g_pBlinnPhongEffect = "SM20"
                     THEN ~g_enableMultipassLighting
                     ELSE g_enableMultipassLighting]_vars

\* A frame rendered on the higher tier while the multi-pass flag is set.
C8_Witness ==
    /\ lastEvent = "FrameRendered"
    /\ g_pBlinnPhongEffect = "SM30"
    /\ g_enableMultipassLighting
    /\ hTechnique = "PerPixelPointLighting"

\* C9: each frame supplies the attribute blocks of exactly the lights
\* 0 .. activeLightCount-1, and the scalar light count only on the higher tier.
C9_Binding ==
    FrameRan =>
        /\ bound.effect = g_pBlinnPhongEffect
        /\ DOMAIN bound.lights = 0 .. (g_numLights - 1)
        /\ \A i \in DOMAIN bound.lights :
              bound.lights[i] = [pos |-> g_lights[i].pos,
                                 ambient |-> g_lights[i].ambient,
                                 diffuse |-> g_lights[i].diffuse,
                                 specular |-> g_lights[i].specular,
                                 radius |-> g_lights[i].radius]
        /\ IF g_pBlinnPhongEffect = "SM30"
           THEN bound.numLights = g_numLights
           ELSE bound.numLights = -1

\* A frame on the lower tier of capable hardware: 2 of the 8 lights supplied,
\* after they have moved.
C9_Witness ==
    /\ lastEvent = "FrameRendered"
    /\ BothTiers
    /\ g_pBlinnPhongEffect = "SM20"
    /\ DOMAIN bound.lights = {0, 1}
    /\ bound.numLights = -1
    /\ g_lights[1].pos # <<0, 0, 0>>

\* C10: a left, middle or right button-down received in Idle moves the
\* mapper to Tracking, Dollying or Orbiting, acquires pointer capture and
\* records the event's pointer position as the reference position.
C10_ButtonDownFromIdle ==
    [][\A b \in Buttons, pt \in MousePoints :
          (cameraMode = "CAMERA_NONE" /\ ButtonDown(b, pt)) =>
             /\ cameraMode' = CASE b = "L" -> "CAMERA_TRACK"
                                [] b = "M" -> "CAMERA_DOLLY"
                                [] b = "R" -> "CAMERA_ORBIT"
             /\ captured'
             /\ ptMousePrev' = pt]_vars

\* The middle button has gone down in Idle, away from the old reference.
C10_Witness ==
    /\ lastEvent = "ButtonDown"
    /\ held = {"M"}
    /\ mouseButtonsDown = 1
    /\ cameraMode = "CAMERA_DOLLY"
    /\ captured
    /\ ptMousePrev = <<300, 450>>

C13_Wheel ==
    [][\A d \in WheelDeltas :
          MouseWheel(d) =>
             LET o == g_camera.offset - d * MOUSE_WHEEL_DOLLY_SPEED
             IN  /\ g_camera'.offset = IF o > DOLLY_MAX THEN DOLLY_MAX
                                        ELSE IF o < DOLLY_MIN THEN DOLLY_MIN
                                        ELSE o
                 /\ g_camera' = [g_camera EXCEPT !.offset = g_camera'.offset]
                 /\ UNCHANGED <<cameraMode, mouseButtonsDown, ptMousePrev, captured>>]_vars

\* The wheel has driven the offset onto the near-plane clamp during a
\* left-button drag.
C13_Witness ==
    /\ lastEvent = "MouseWheel"
    /\ cameraMode = "CAMERA_TRACK"
    /\ held = {"L"}
    /\ g_camera.offset = DOLLY_MIN

\* The camera settings of the initial state.
InitialSettings ==
    /\ g_camera.offset = ROOM_SIZE_Z * 100
    /\ g_camera.pitch = 0
    /\ g_camera.orientation = [yaw |-> 0, pitch |-> 0]
    /\ g_camera.target = <<0, 0, 0>>

\* C14 as stated: with the initial settings the rebuilt camera position is
\* on the +Z axis at distance ROOM_SIZE_Z from the target.
C14_Original ==
    (FrameRan /\ InitialSettings) => g_camera.pos = <<0, 0, ROOM_SIZE_Z * 1000>>

\* C14, amended: with the initial settings the rebuilt camera position is
\* target + zAxis * (-offset), on the -Z axis at distance ROOM_SIZE_Z from
\* the target.
C14_CameraPosition ==
    (FrameRan /\ InitialSettings) =>
        /\ g_camera.zAxis = <<0, 0, 1000>>
        /\ g_camera.pos = <<0, 0, -(ROOM_SIZE_Z * 1000)>>

\* A later frame has rebuilt the camera from the initial settings during a
\* right-button drag.
C14_Witness ==
    /\ lastEvent = "FrameRendered"
    /\ frames >= 2
    /\ InitialSettings
    /\ cameraMode = "CAMERA_ORBIT"
    /\ g_camera.pos = <<0, 0, -(ROOM_SIZE_Z * 1000)>>

\* C15: in Tracking a move of (dx = 10, dy = 0) pixels shifts the target by
\* 10 * MOUSE_TRACK_SPEED along -xAxis and leaves pitch, offset and
\* orientation unchanged.
C15_TrackDrag ==
    [][\A pt \in CamPoints :
          (/\ cameraMode = "CAMERA_TRACK"
           /\ pt[1] - ptMousePrev[1] = 10
           /\ pt[2] - ptMousePrev[2] = 0
           /\ MouseMove(pt)) =>
             /\ \A a \in 1..3 :
                   g_camera'.target[a] =
                      g_camera.target[a] - (g_camera.xAxis[a] * 10 * MOUSE_TRACK_SPEED) \div 1000
             /\ g_camera'.pitch = g_camera.pitch
             /\ g_camera'.offset = g_camera.offset
             /\ g_camera'.orientation = g_camera.orientation]_vars

\* A ten-pixel track drag from the origin with the camera yawed by 3 degrees:
\* the target sits 5 units along -xAxis = -(cos 3, 0, sin 3).
C15_Witness ==
    /\ lastEvent = "MouseMove"
    /\ cameraMode = "CAMERA_TRACK"
    /\ g_camera.xAxis = <<999, 0, 52>>
    /\ g_camera.target = <<-4995, 0, -260>>

\* C16: for every pair of rand() results a light launched by init() has
\* velocity.y = speed * sin(45 deg) > 0 with the speed within
\* [LIGHT_OBJECT_SPEED, 1.5 * LIGHT_OBJECT_SPEED] (the horizontal part of
\* the velocity is as long as the vertical one, to within 2 percent), and
\* init() changes nothing of the light but its velocity.  A light init() is
\* not applied to is left as it was.
C16_Launch ==
    [][(lastEvent' = "InitApp" /\ phase' = "running") =>
          \A i \in LightIdx :
             IF i < g_numLights'
             THEN LET v == g_lights'[i].velocity
                      hx == v[1] \div 100
                      hy == v[2] \div 100
                      hz == v[3] \div 100
                  IN  /\ v[2] > 0
                      /\ v[2] >= (LIGHT_OBJECT_SPEED * 1000 * Sin1000(450)) \div 1000
                      /\ v[2] <= (LIGHT_OBJECT_SPEED * 1500 * Sin1000(450)) \div 1000
                      /\ Abs(hx * hx + hz * hz - hy * hy) * 50 <= hy * hy
                      /\ g_lights'[i] = [g_lights[i] EXCEPT !.velocity = v]
             ELSE g_lights'[i] = g_lights[i]]_vars

\* Light 0 launched at the top speed and light 1 at the lowest, heading
\* toward -x and -z.
C16_Witness ==
    /\ phase = "running"
    /\ lastEvent = "InitApp"
    /\ g_lights[0].velocity[2] = (LIGHT_OBJECT_SPEED * 1500 * Sin1000(450)) \div 1000
    /\ g_lights[1].velocity[2] = (LIGHT_OBJECT_SPEED * 1000 * Sin1000(450)) \div 1000
    /\ g_lights[1].velocity[1] < 0
    /\ g_lights[1].velocity[3] < 0
    /\ g_lights[1].pos = <<0, 0, 0>>
    /\ g_lights[1].radius = LIGHT_RADIUS_INIT

\* C17: while the animate toggle is off no frame changes any light's
\* position or velocity, and SPACE changes only the toggle, so a light
\* resumes from the position and velocity it was paused with.
C17_Pause ==
    /\ [][(~g_animateLights /\ frames' = frames + 1) => g_lights' = g_lights]_vars
    /\ [][KeySpace =>
             /\ g_animateLights' = ~g_animateLights
             /\ UNCHANGED <<g_lights, g_camera, selectorVars, g_hasFocus, mouseVars,
                            hTechnique, bound, frames, phase>>]_vars

\* A frame has run with the animation paused, after the lights had moved.
C17_Witness ==
    /\ lastEvent = "FrameRendered"
    /\ ~g_animateLights
    /\ frames >= 2
    /\ g_lights[0].pos # <<0, 0, 0>>
    /\ g_lights[0].velocity # <<0, 0, 0>>

\* C18: a frame (one update, then the render if the device is valid) runs
\* only after every pending message has been retrieved and handled, and only
\* while the window has the focus; once the loop runs nothing but a frame
\* moves the lights, rebuilds the camera or renders; while unfocused none of
\* these happens, and once the loop waits only a new message ends the wait.
C18_Loop ==
    /\ [][frames' = frames + 1 =>
             /\ g_hasFocus
             /\ msgQueue = <<>>
             /\ lastEvent # "PeekMessage"
             /\ lastEvent' \in {"FrameRendered", "FrameSkipped", "FrameCrashed"}]_vars
    /\ [][(/\ phase = "running"
            /\ \/ g_lights' # g_lights \/ g_camera' # g_camera
               \/ bound' # bound \/ hTechnique' # hTechnique) =>
              frames' = frames + 1]_vars
    /\ [][(phase = "running" /\ ~g_hasFocus) =>
             UNCHANGED <<frames, g_lights, g_camera, bound, hTechnique>>]_vars
    /\ [][(lastEvent = "WaitMessage" /\ msgQueue = <<>>) =>
             /\ msgQueue' # <<>>
             /\ UNCHANGED <<phase, selectorVars, g_animateLights, g_hasFocus, g_lights,
                            g_camera, mouseVars, hTechnique, bound, frames, msg,
                            lastEvent>>]_vars

\* The window lost the focus after frames had run, and the loop waits.
C18_Witness ==
    /\ lastEvent = "WaitMessage"
    /\ msg = "WA_INACTIVE"
    /\ ~g_hasFocus
    /\ msgQueue = <<>>
    /\ frames >= 1
    /\ g_lights[0].pos # <<0, 0, 0>>

\* The first n stored samples, newest first.
Newest(t, n) == [i \in 1 .. n |-> t.frameTimes[i]]

\* C19: the elapsed time returned is the arithmetic mean of the stored
\* samples, at most 50 of them (0 while none is stored); a raw sample is
\* accepted exactly when it differs from the average returned before by less
\* than one second; an accepted sample becomes the newest stored one and,
\* with 50 stored, the oldest is dropped; a rejected sample leaves the stored
\* samples and their count unchanged.
C19_Smoothing ==
    /\ [](/\ timer.sampleCount >= 0 /\ timer.sampleCount <= 50
          /\ IF timer.sampleCount = 0
             THEN timer.actualElapsedTimeSec = 0
             ELSE LET total == SumFirst(timer.frameTimes, timer.sampleCount) * 1000
                      mean == timer.actualElapsedTimeSec
                  IN  /\ mean * timer.sampleCount <= total
                      /\ total < (mean + 1) * timer.sampleCount)
    /\ [][\A raw \in SampleTimes :
             GetElapsedTimeInSeconds(raw) =>
                LET n == timer.sampleCount
                    kept == IF n < 50 THEN n ELSE 49
                IN  IF Abs(raw * 1000 - timer.actualElapsedTimeSec) < 1000 * 1000
                    THEN /\ timer'.sampleCount = kept + 1
                         /\ Newest(timer', kept + 1) = <<raw>> \o Newest(timer, kept)
                    ELSE /\ timer'.sampleCount = n
                         /\ timer'.frameTimes = timer.frameTimes
                         /\ timer'.actualElapsedTimeSec = timer.actualElapsedTimeSec]_vars

\* Fifty samples of 1016 ms are stored: the shorter samples that let the
\* first of them in have been dropped.
C19_Witness ==
    /\ lastEvent = "GetElapsedTimeInSeconds"
    /\ timer.sampleCount = MAX_SAMPLE_COUNT
    /\ \A i \in 1 .. MAX_SAMPLE_COUNT : timer.frameTimes[i] = 1016
    /\ timer.actualElapsedTimeSec = 1016 * 1000

\* Neither tier is supported: a shader version is below 2.0.
NoTier == vsVersion < 2 \/ psVersion < 2

\* C20: when neither shader tier is supported start-up fails and the error is
\* shown to the user; the main loop is never entered, so no frame ever
\* updates the lights, rebuilds the camera, binds parameters or selects a
\* technique, and whenever a frame has run a tier is active.
C20_NoTier ==
    /\ NoTier =>
          /\ phase # "running"
          /\ frames = 0
          /\ g_lights = InitialLights
          /\ g_camera = InitialCamera
          /\ bound = NoBinding
          /\ hTechnique = "null"
          /\ g_pBlinnPhongEffect = "null"
    /\ (NoTier /\ lastEvent = "InitApp") =>
          /\ phase = "failed"
          /\ logged \in {"Shader model 2.0 or higher is required.",
                         "Direct3D initialization failed!"}
    /\ frames > 0 => g_pBlinnPhongEffect \in {"SM20", "SM30"}

\* Start-up has failed on hardware with 3.0 vertex shaders but 1.x pixel
\* shaders, with the shader model message shown.
C20_Witness ==
    /\ vsVersion = 3 /\ psVersion = 1
    /\ lastEvent = "InitApp"
    /\ phase = "failed"
    /\ logged = "Shader model 2.0 or higher is required."
    /\ frames = 0

\* C21: the pitch angles composed into the orientation add up to the current
\* pitch; an orbit move whose delta would pass +/-90 degrees composes only
\* the remainder up to the boundary, and one made at the boundary in the
\* overshoot direction leaves the orientation as it is.
C21_PitchRemainder ==
    /\ [](g_camera.orientation.pitch = g_camera.pitch)
    /\ [][\A pt \in DragPoints :
             (cameraMode = "CAMERA_ORBIT" /\ MouseMove(pt)) =>
                LET dy == (ptMousePrev[2] - pt[2]) * MOUSE_ORBIT_SPEED
                    raw == g_camera.pitch + dy
                    composed == g_camera'.orientation.pitch - g_camera.orientation.pitch
                IN  /\ composed = IF raw > 900 THEN 900 - g_camera.pitch
                                  ELSE IF raw < -900 THEN (-900) - g_camera.pitch
                                  ELSE dy
                    /\ (g_camera.pitch = 900 /\ dy > 0) =>
                          g_camera'.orientation = g_camera.orientation
                    /\ (g_camera.pitch = -900 /\ dy < 0) =>
                          g_camera'.orientation = g_camera.orientation]_vars

\* An orbit drag has stopped at the lower boundary, from a pitch that was
\* not a whole number of drags away from it.
C21_Witness ==
    /\ lastEvent = "MouseMove"
    /\ cameraMode = "CAMERA_ORBIT"
    /\ ptMousePrev = <<0, 350>>
    /\ g_camera.pitch = -900
    /\ g_camera.orientation.pitch = -900

\* The offset a dolly move from reference prev to pt aims at, before clamping.
DollyAim(o, prev, pt) == o + (pt[2] - prev[2]) * MOUSE_DOLLY_SPEED
Unclamped(o) == o >= DOLLY_MIN /\ o <= DOLLY_MAX

\* C25: a move in a non-Idle mode applies the delta from the reference to
\* the current position and makes the current position the reference; in
\* Dollying, while no clamp is hit, the offset changes by MOUSE_DOLLY_SPEED
\* times the vertical displacement, and two moves in a row give the offset
\* of the single move between their end points.
C25_DollySum ==
    /\ [][\A pt \in DragPoints :
             (cameraMode # "CAMERA_NONE" /\ MouseMove(pt)) =>
                /\ ptMousePrev' = pt
                /\ (cameraMode = "CAMERA_DOLLY"
                       /\ Unclamped(DollyAim(g_camera.offset, ptMousePrev, pt))) =>
                      g_camera'.offset = DollyAim(g_camera.offset, ptMousePrev, pt)]_vars
    /\ [](cameraMode = "CAMERA_DOLLY" =>
            \A p1 \in DragPoints, p2 \in DragPoints :
               LET c1 == MoveCamera(g_camera, cameraMode, ptMousePrev, p1)
                   c2 == MoveCamera(c1, cameraMode, p1, p2)
               IN  (/\ Unclamped(DollyAim(g_camera.offset, ptMousePrev, p1))
                    /\ Unclamped(DollyAim(c1.offset, p1, p2))) =>
                      /\ c2.offset = DollyAim(g_camera.offset, ptMousePrev, p2)
                      /\ c2 = MoveCamera(g_camera, cameraMode, ptMousePrev, p2))

\* A dolly drag has moved the offset by 50 units without touching a clamp.
C25_Witness ==
    /\ lastEvent = "MouseMove"
    /\ cameraMode = "CAMERA_DOLLY"
    /\ ptMousePrev = <<0, 50>>
    /\ g_camera.offset = ROOM_SIZE_Z * 100 + 50 * MOUSE_DOLLY_SPEED

\* C22 as stated: on a frame with animation enabled a light outside the
\* active set keeps its position and velocity.
C22_Original ==
    [][(frames' = frames + 1 /\ g_animateLights) =>
          \A i \in LightIdx : i >= g_numLights => g_lights'[i] = g_lights[i]]_vars

\* C22, amended: on a frame with animation enabled every light of the
\* g_lights array is advanced by update(dt), in the active set or not; with
\* animation disabled no light changes.
C22_AllLightsAdvance ==
    [][frames' = frames + 1 =>
          IF g_animateLights
          THEN \E dt \in FrameTimes :
                  \A i \in LightIdx : g_lights'[i] = LightUpdate(g_lights[i], dt)
          ELSE g_lights' = g_lights]_vars

\* On shader model 3.0 hardware switched down to two lights, the first frame
\* has moved the eighth light away from its starting point.
C22_Witness ==
    /\ lastEvent \in {"FrameRendered", "FrameSkipped"}
    /\ frames = 1
    /\ g_animateLights
    /\ g_supportsShaderModel30
    /\ g_numLights = 2
    /\ g_lights[7].pos # InitialLights[7].pos

\* The number of lights put in use at start-up on the hardware at hand.
StartupLights == StartupTier(DetectShaderModel(vsVersion, psVersion))[2]

\* C23 as stated: once start-up has succeeded every light of the array has
\* been launched by init() exactly once.
C23_Original ==
    [](phase = "running" => \A i \in LightIdx : initCalls[i] = 1)

\* C23, amended: once start-up has succeeded, init() has been applied exactly
\* once to each light in use at start-up (8 with shader model 3.0, the first
\* 2 without) and never to the others, whose velocity stays zero; no later
\* step applies init() again.
C23_InitOnce ==
    /\ [](phase = "running" =>
            \A i \in LightIdx :
               IF i < StartupLights
               THEN initCalls[i] = 1 /\ g_lights[i].velocity[2] # 0
               ELSE initCalls[i] = 0 /\ g_lights[i].velocity = Vec(0, 0, 0))
    /\ [][phase = "running" => initCalls' = initCalls]_vars

\* Shader model 2.0 hardware after a frame: two lights launched, the third
\* never.
C23_Witness ==
    /\ phase = "running"
    /\ ~g_supportsShaderModel30
    /\ frames > 0
    /\ initCalls[1] = 1
    /\ initCalls[2] = 0
    /\ g_lights[2].velocity = Vec(0, 0, 0)

\* C24 as stated: a light that is beyond the reflection threshold on an axis
\* after an update step has its velocity on that axis pointing back toward
\* the interior, on the step that took it past the threshold and on every
\* step after it until it is back within the threshold.
C24_Original ==
    \A i \in LightIdx, a \in 1..3 :
       /\ g_lights[i].pos[a] > ReflectAt(a) => g_lights[i].velocity[a] <= 0
       /\ g_lights[i].pos[a] < -ReflectAt(a) => g_lights[i].velocity[a] >= 0

\* The state the lights, the camera rig and the tier selector keep.
CoreState ==
    <<g_lights, g_camera.pitch, g_camera.offset, g_camera.target, g_camera.orientation,
      g_pBlinnPhongEffect, g_numLights, g_animateLights, g_enableMultipassLighting>>

\* CoreState after UpdateFrame with an elapsed time of 16 ms, no reset made.
CoreAfterUpdateFrame ==
    <<UpdateFrameLights(g_animateLights, g_lights, 16),
      g_camera.pitch, g_camera.offset, g_camera.target, g_camera.orientation,
      g_pBlinnPhongEffect, g_numLights, g_animateLights, g_enableMultipassLighting>>

\* C26: a device reset leaves the lights, the camera's pitch, offset, target
\* and orientation, the tier, the light count and the two toggles as they
\* were: a full-screen toggle changes none of them, and a frame that resets
\* the device ends with the values UpdateFrame alone gives.
C26_ResetKeepsCore ==
    /\ [][g_isFullScreen' # g_isFullScreen => CoreState' = CoreState]_vars
    /\ [][(frames' = frames + 1 /\ resetUsed' # {}) =>
             CoreState' = CoreAfterUpdateFrame]_vars

\* With two lights in use, animation paused and multi-pass on, after a frame
\* has moved the lights: a full-screen toggle has reset the device.
C26_Witness ==
    /\ lastEvent = "ToggleFullScreen"
    /\ phase = "running"
    /\ g_isFullScreen
    /\ resetUsed = {"SM20", "SM30"}
    /\ g_numLights = 2
    /\ ~g_animateLights
    /\ g_enableMultipassLighting
    /\ g_lights[0].pos # InitialLights[0].pos

\* C27 as stated: RenderFrame is not invoked in an iteration whose
\* cooperative-level test failed.
C27_Original ==
    [][\A dev \in DeviceStates \ {"ok"} :
          Frame(16, dev) => lastEvent' # "FrameRendered"]_vars

\* C27, amended: the render is skipped only when the test reports
\* D3DERR_DEVICENOTRESET and ResetDevice() fails; when it reports
\* D3DERR_DEVICELOST, or the reset succeeds, RenderFrame runs in the same
\* iteration (unless the reset has ended the process).
C27_RenderSkipped ==
    [][\A dev \in DeviceStates :
          Frame(16, dev) =>
             \/ /\ lastEvent' = "FrameCrashed"
                /\ dev \in {"notreset_reset_ok", "notreset_reset_failed"}
                /\ g_pBlinnPhongEffectSM30 = "null"
             \/ /\ dev = "notreset_reset_failed"
                /\ lastEvent' = "FrameSkipped"
                /\ hTechnique' = hTechnique
             \/ /\ dev # "notreset_reset_failed"
                /\ lastEvent' = "FrameRendered"
                /\ hTechnique' = SelectTechnique(g_pBlinnPhongEffect,
                                                 g_enableMultipassLighting)]_vars

\* A frame found the device not reset, reset it through both effects and
\* was rendered.
C27_Witness ==
    /\ lastEvent = "FrameRendered"
    /\ resetUsed = {"SM20", "SM30"}
    /\ hTechnique # "null"

\* C28 as stated: ResetDevice() never calls through the pointer of an effect
\* that was not created.
C28_Original == "null" \notin resetUsed

\* C29: in every state of a program whose start-up has not failed, every
\* light with an index below g_numLights has been launched by init(), once,
\* whatever 'S' presses were made: the count never covers a light that was
\* not launched.
C29_ActiveLaunched ==
    phase # "failed" =>
       \A i \in LightIdx :
          i < g_numLights => initCalls[i] = 1 /\ g_lights[i].velocity[2] # 0

\* Hardware without shader model 3.0 after an 'S' press: still two lights in
\* use, the third never launched.
C29_Witness ==
    /\ lastEvent = "KeyS"
    /\ ~g_supportsShaderModel30
    /\ g_numLights = MAX_LIGHTS_SM20
    /\ initCalls[1] = 1
    /\ initCalls[2] = 0

\* C30: after init() no step changes the absolute value of a velocity
\* component of any light: each component keeps the magnitude its launch
\* gave it (zero for a light that was not launched), through any frames and
\* elapsed times.
C30_SpeedKept ==
    /\ [][phase = "running" =>
             \A i \in LightIdx, a \in 1..3 :
                Abs(g_lights'[i].velocity[a]) = Abs(g_lights[i].velocity[a])]_vars
    /\ [](phase = "running" =>
            \A i \in LightIdx :
               IF initCalls[i] = 0
               THEN g_lights[i].velocity = Vec(0, 0, 0)
               ELSE \E d \in DrawPairs :
                       \A a \in 1..3 :
                          Abs(g_lights[i].velocity[a]) =
                             Abs(LightInit(InitialLights[i], d[1], d[2]).velocity[a]))

\* After two frames a light is above the ceiling threshold with its upward
\* velocity negated twice.
C30_Witness ==
    /\ lastEvent = "FrameRendered"
    /\ frames = 2
    /\ \E i \in LightIdx :
          /\ g_lights[i].pos[2] > ReflectAt(2)
          /\ g_lights[i].velocity[2] > 0

\* C31: a button-down message received while another button is held sets
\* the mode of the button just pressed, whatever the precedence of releases,
\* adds one to the count of buttons down and records the press position as
\* the reference.
C31_LastPressWins ==
    [][\A b \in Buttons, pt \in DragPoints :
          (held # {} /\ ButtonDown(b, pt)) =>
             /\ cameraMode' = CASE b = "L" -> "CAMERA_TRACK"
                                [] b = "M" -> "CAMERA_DOLLY"
                                [] b = "R" -> "CAMERA_ORBIT"
             /\ mouseButtonsDown' = mouseButtonsDown + 1
             /\ ptMousePrev' = pt]_vars

\* With the left button held and counted, the middle button has gone down
\* at another point: Dollying, though a release would prefer the left button.
C31_Witness ==
    /\ lastEvent = "ButtonDown"
    /\ held = {"L", "M"}
    /\ mouseButtonsDown = 2
    /\ cameraMode = "CAMERA_DOLLY"
    /\ ptMousePrev = <<0, 350>>

\* C32: whatever presses and releases arrive, a release without its press
\* included, the count of buttons down is never negative and the mode is
\* CAMERA_NONE exactly when the count is 0.
C32_CountAndIdle ==
    /\ mouseButtonsDown >= 0
    /\ cameraMode = "CAMERA_NONE" <=> mouseButtonsDown = 0

\* The left button was pressed unseen and then released in the window while
\* only the right button was counted: the count is back at 0 and the mapper
\* Idle with the right button still held, whose release will find no press.
C32_Witness ==
    /\ lastEvent = "ButtonUp"
    /\ held = {"R"}
    /\ mouseButtonsDown = 0
    /\ cameraMode = "CAMERA_NONE"
    /\ ~captured

\* C33: a pointer move received in Idle leaves the camera as it is (pitch,
\* offset, target and orientation included) and only makes the current
\* position the reference.
C33_IdleMove ==
    [][\A pt \in DragPoints :
          (cameraMode = "CAMERA_NONE" /\ MouseMove(pt)) =>
             /\ g_camera' = g_camera
             /\ ptMousePrev' = pt
             /\ UNCHANGED <<cameraMode, mouseButtonsDown, captured, g_lights,
                            selectorVars>>]_vars

\* After a dolly drag was ended, an Idle move of 350 pixels has moved the
\* reference and left the offset where the drag put it.
C33_Witness ==
    /\ lastEvent = "MouseMove"
    /\ cameraMode = "CAMERA_NONE"
    /\ ptMousePrev = <<0, 350>>
    /\ g_camera.offset = ROOM_SIZE_Z * 100 + 50 * MOUSE_DOLLY_SPEED

\* C34: with both tiers supported an 'S' press changes the active effect and
\* the light count and nothing else, the multi-pass flag included; two 'S'
\* presses in a row give back the effect, the count and the flag, and with
\* them the technique RenderRoomUsingBlinnPhong selects.
C34_TierSwitchKeepsFlag ==
    /\ [][(g_supportsShaderModel30 /\ KeyS) =>
             /\ g_pBlinnPhongEffect' # g_pBlinnPhongEffect
             /\ g_numLights' # g_numLights
             /\ UNCHANGED <<g_enableMultipassLighting, hTechnique, g_supportsShaderModel30,
                            g_pBlinnPhongEffectSM20, g_pBlinnPhongEffectSM30,
                            g_animateLights, g_hasFocus, g_lights, g_camera, mouseVars,
                            bound, OtherVars>>]_vars
    /\ []((phase = "running" /\ g_supportsShaderModel30) =>
            LET t1 == TierAfterS(TRUE, g_pBlinnPhongEffect, g_numLights)
                t2 == TierAfterS(TRUE, t1[1], t1[2])
            IN  /\ t1[1] # g_pBlinnPhongEffect
                /\ t2 = <<g_pBlinnPhongEffect, g_numLights>>
                /\ SelectTechnique(t2[1], g_enableMultipassLighting) =
                      SelectTechnique(g_pBlinnPhongEffect, g_enableMultipassLighting))

\* Multi-pass was switched on and rendered on the lower tier; after a switch
\* up and a switch down the lower tier is active again with the flag still
\* set and no frame run since.
C34_Witness ==
    /\ lastEvent = "KeyS"
    /\ g_supportsShaderModel30
    /\ g_pBlinnPhongEffect = "SM20"
    /\ g_numLights = MAX_LIGHTS_SM20
    /\ g_enableMultipassLighting
    /\ hTechnique = "PerPixelPointLightingMultiPass"

\* C35: in every state all eight lights, in use or not, have the radius of
\* light 0, the one RenderText shows.
C35_OneRadius ==
    \A i \in LightIdx : g_lights[i].radius = g_lights[0].radius

\* With two lights in use, a '-' press has lowered the radius of the unused
\* eighth light below its initial value along with the others.
C35_Witness ==
    /\ lastEvent = "KeyMinus"
    /\ g_numLights = MAX_LIGHTS_SM20
    /\ g_lights[7].radius < LIGHT_RADIUS_INIT
    /\ g_lights[7].radius = g_lights[0].radius
==========================================================================
